---------------------------- MODULE Spec2Model ----------------------------
(***************************************************************************)
(* Name normalisation and path inference of the Alchemist-Repos            *)
(* processors (KeatonTheBot, theboy181, StevensND, Fl4sh9174).             *)
(*                                                                         *)
(* A label is a sequence of characters.  An ASCII character is the string  *)
(* of length one holding it; a character outside ASCII, and the backtick   *)
(* (which a string literal cannot hold), is written by its code point      *)
(* ("U+00E9", "U+0060").                                                   *)
(***************************************************************************)
EXTENDS Naturals, Integers, Sequences, FiniteSets, TLC

VARIABLES pc, raw, sanitized, titled, retitled, variant, parts, names,
          archives, files, output, log

vars == <<pc, raw, sanitized, titled, retitled, variant, parts, names,
          archives, files, output, log>>

\* The state of a driver run: the archives and the content files it has still
\* to handle, the output tree, and the line printed for each file handled
driverVars == <<archives, files, output, log>>

(***************************************************************************)
(* Characters                                                              *)
(***************************************************************************)
Lowers == <<"a","b","c","d","e","f","g","h","i","j","k","l","m",
            "n","o","p","q","r","s","t","u","v","w","x","y","z","U+00E9">>
Uppers == <<"A","B","C","D","E","F","G","H","I","J","K","L","M",
            "N","O","P","Q","R","S","T","U","V","W","X","Y","Z","U+00C9">>

LowerSet == {Lowers[i] : i \in DOMAIN Lowers}
UpperSet == {Uppers[i] : i \in DOMAIN Uppers}
Digits == {"0","1","2","3","4","5","6","7","8","9"}

\* U+00E9 e-acute, U+00C9 E-acute, U+0301 combining acute, U+2013 en dash,
\* U+2014 em dash, U+2019 right single quotation mark, U+00A0 no-break space
NonAscii == {"U+00E9", "U+00C9", "U+0301", "U+2013", "U+2014", "U+2019", "U+00A0"}

ToUpper == [c \in LowerSet |-> Uppers[CHOOSE i \in DOMAIN Lowers : Lowers[i] = c]]
ToLower == [c \in UpperSet |-> Lowers[CHOOSE i \in DOMAIN Uppers : Uppers[i] = c]]

\* str.upper() / str.lower() on one character
UpperChar(c) == IF c \in LowerSet THEN ToUpper[c] ELSE c
LowerChar(c) == IF c \in UpperSet THEN ToLower[c] ELSE c

Upper(s) == [i \in DOMAIN s |-> UpperChar(s[i])]
Lower(s) == [i \in DOMAIN s |-> LowerChar(s[i])]

\* str.isspace(): what str.split() splits on and what \s matches
IsSpace(c) == c \in {" ", "\t", "\n", "U+00A0"}

\* \w of the re module (str patterns)
IsWordChar(c) == c \in LowerSet \cup UpperSet \cup Digits \cup {"_"}

\* Python's None, and the value of a variable not yet set
None == <<"None">>

(***************************************************************************)
(* String helpers (str methods)                                            *)
(***************************************************************************)
RECURSIVE Flatten(_)
Flatten(ss) == IF ss = <<>> THEN <<>> ELSE Head(ss) \o Flatten(Tail(ss))

\* sep.join(pieces)
RECURSIVE Join(_, _)
Join(pieces, sep) ==
    IF pieces = <<>> THEN <<>>
    ELSE IF Len(pieces) = 1 THEN pieces[1]
    ELSE pieces[1] \o sep \o Join(Tail(pieces), sep)

\* s[i:] starts with sub
StartsAt(s, i, sub) ==
    /\ i + Len(sub) - 1 <= Len(s)
    /\ \A k \in 1..Len(sub) : s[i + k - 1] = sub[k]

\* sub in s
Contains(s, sub) == \E i \in 1..(Len(s) + 1) : StartsAt(s, i, sub)

\* s.find(sub, i): the first index >= i where sub starts, 0 when there is none
FindFrom(s, i, sub) ==
    IF \E j \in i..(Len(s) + 1) : StartsAt(s, j, sub)
    THEN CHOOSE j \in i..(Len(s) + 1) :
            /\ StartsAt(s, j, sub)
            /\ \A k \in i..(j - 1) : ~StartsAt(s, k, sub)
    ELSE 0

\* s.replace(old, new), old non-empty: non-overlapping occurrences, left to right
RECURSIVE ReplaceFrom(_, _, _, _)
ReplaceFrom(s, i, old, new) ==
    IF i > Len(s) THEN <<>>
    ELSE IF StartsAt(s, i, old) THEN new \o ReplaceFrom(s, i + Len(old), old, new)
    ELSE <<s[i]>> \o ReplaceFrom(s, i + 1, old, new)

Replace(s, old, new) == ReplaceFrom(s, 1, old, new)

\* s.split(c) for a one-character separator: the pieces, empty ones kept
RECURSIVE SplitFrom(_, _, _, _)
SplitFrom(s, c, i, cur) ==
    IF i > Len(s) THEN <<cur>>
    ELSE IF s[i] = c THEN <<cur>> \o SplitFrom(s, c, i + 1, <<>>)
    ELSE SplitFrom(s, c, i + 1, Append(cur, s[i]))

Split(s, c) == SplitFrom(s, c, 1, <<>>)

\* s.split(sub) for a separator string
RECURSIVE SplitStrFrom(_, _, _, _)
SplitStrFrom(s, sub, i, cur) ==
    IF i > Len(s) THEN <<cur>>
    ELSE IF StartsAt(s, i, sub) THEN <<cur>> \o SplitStrFrom(s, sub, i + Len(sub), <<>>)
    ELSE SplitStrFrom(s, sub, i + 1, Append(cur, s[i]))

SplitStr(s, sub) == SplitStrFrom(s, sub, 1, <<>>)

\* s.split(): the maximal runs of non-whitespace
RECURSIVE WordsFrom(_, _, _)
WordsFrom(s, i, cur) ==
    IF i > Len(s) THEN (IF cur = <<>> THEN <<>> ELSE <<cur>>)
    ELSE IF IsSpace(s[i])
         THEN (IF cur = <<>> THEN <<>> ELSE <<cur>>) \o WordsFrom(s, i + 1, <<>>)
         ELSE WordsFrom(s, i + 1, Append(cur, s[i]))

SplitWords(s) == WordsFrom(s, 1, <<>>)

\* s.lstrip(), s.rstrip(), s.strip()
RECURSIVE LStrip(_)
LStrip(s) == IF s # <<>> /\ IsSpace(Head(s)) THEN LStrip(Tail(s)) ELSE s

RECURSIVE RStrip(_)
RStrip(s) ==
    IF s # <<>> /\ IsSpace(s[Len(s)]) THEN RStrip(SubSeq(s, 1, Len(s) - 1)) ELSE s

Strip(s) == LStrip(RStrip(s))

(***************************************************************************)
(* Sanitizer                                                               *)
(***************************************************************************)
\* unicodedata.normalize("NFKD", .) on one character
Nfkd(c) ==
    CASE c = "U+00E9" -> <<"e", "U+0301">>
      [] c = "U+00C9" -> <<"E", "U+0301">>
      [] c = "U+00A0" -> <<" ">>
      [] OTHER -> <<c>>

\* .encode("ascii", "ignore").decode("ascii")
AsciiOnly(s) == SelectSeq(s, LAMBDA c : c \notin NonAscii)

ToAscii(name) == AsciiOnly(Flatten([i \in DOMAIN name |-> Nfkd(name[i])]))

\* "'", "'", "`" and '"'; U+0060 is the backtick
QuoteChars == {"'", "U+0060", "\""}

\* Mutant: only the apostrophe is removed
RemoveQuotes_ApostropheOnly(n) == SelectSeq(n, LAMBDA c : c # "'")

RemoveQuotes(n) == SelectSeq(n, LAMBDA c : c \notin QuoteChars)

ReplaceDash(n) == Replace(n, <<" ", "-", " ">>, <<" ">>)

\* a match of \bBros\.\s (IGNORECASE) starts at i
BrosAt(n, i) ==
    /\ i + 5 <= Len(n)
    /\ Lower(SubSeq(n, i, i + 3)) = <<"b", "r", "o", "s">>
    /\ n[i + 4] = "."
    /\ IsSpace(n[i + 5])
    /\ (i = 1 \/ ~IsWordChar(n[i - 1]))

\* re.sub(r'\bBros\.\s', 'Bros ', n, flags=re.IGNORECASE)
RECURSIVE BrosFrom(_, _)
BrosFrom(n, i) ==
    IF i > Len(n) THEN <<>>
    ELSE IF BrosAt(n, i) THEN <<"B", "r", "o", "s", " ">> \o BrosFrom(n, i + 6)
    ELSE <<n[i]>> \o BrosFrom(n, i + 1)

ReplaceBros(n) == BrosFrom(n, 1)

\* " ".join(n.split()).strip()
CollapseSpaces(n) == Strip(Join(SplitWords(n), <<" ">>))

sanitize_name(name) ==
    CollapseSpaces(ReplaceBros(ReplaceDash(RemoveQuotes(ToAscii(name)))))

(***************************************************************************)
(* Title caser                                                             *)
(***************************************************************************)
\* capitalize_hyphenated: one hyphen-separated piece
CapPiece(p) ==
    IF p = <<>> THEN <<>>
    ELSE IF Len(p) = 1 THEN Upper(p)
    ELSE <<UpperChar(p[1])>> \o Lower(Tail(p))

capitalize_hyphenated(word) ==
    LET ps == Split(word, "-")
    IN  Join([i \in DOMAIN ps |-> CapPiece(ps[i])], <<"-">>)

\* The three groups of ROMAN_NUMERAL_PATTERN, upper case
RomanHundreds ==
  { <<"C","M">>, <<"C","D">>, <<>>, <<"C">>, <<"C","C">>, <<"C","C","C">>,
    <<"D">>, <<"D","C">>, <<"D","C","C">>, <<"D","C","C","C">> }
RomanTens ==
  { <<"X","C">>, <<"X","L">>, <<>>, <<"X">>, <<"X","X">>, <<"X","X","X">>,
    <<"L">>, <<"L","X">>, <<"L","X","X">>, <<"L","X","X","X">> }
RomanUnits ==
  { <<"I","X">>, <<"I","V">>, <<>>, <<"I">>, <<"I","I">>, <<"I","I","I">>,
    <<"V">>, <<"V","I">>, <<"V","I","I">>, <<"V","I","I","I">> }

\* The letters the pattern is made of
RomanLetters == {"M", "D", "C", "L", "X", "V", "I"}

\* M{0,4}
RomanThousands(s) == Len(s) <= 4 /\ \A i \in DOMAIN s : s[i] = "M"

\* ROMAN_NUMERAL_PATTERN.match(w): ^M{0,4}(..)(..)(..)$ with IGNORECASE; the
\* empty string matches
is_roman_numeral(w) ==
    LET u == Upper(w)
        n == Len(u)
    IN  /\ \A x \in DOMAIN u : u[x] \in RomanLetters
        /\ \E i \in 0..n : \E j \in i..n : \E k \in j..n :
            /\ RomanThousands(SubSeq(u, 1, i))
            /\ SubSeq(u, i + 1, j) \in RomanHundreds
            /\ SubSeq(u, j + 1, k) \in RomanTens
            /\ SubSeq(u, k + 1, n) \in RomanUnits

ACRONYMS ==
  {
    <<"H","D">>, <<"2","D">>, <<"3","D">>, <<"4","K">>,
    <<"V","R">>, <<"A","I">>, <<"A","P","I">>, <<"U","S","B">>,
    <<"C","P","U">>, <<"G","P","U">>, <<"D","V","D">>, <<"C","D">>,
    <<"R","P","G">>, <<"F","P","S">>, <<"M","M","O">>, <<"M","M","O","R","P","G">>,
    <<"L","A","N">>, <<"G","U","I">>, <<"N","P","C">>, <<"F","F","V","I","I">>,
    <<"F","F","V","I","I","I">>, <<"F","F","I","X">>, <<"F","F","X">>, <<"F","F","X","I","I">>,
    <<"F","X">>, <<"2","K">>, <<"5","K">>, <<"8","K">>,
    <<"V","1">>, <<"V","2">>, <<"V","3">>, <<"V","4">>,
    <<"D","O","F">>
  }

lowercase_exceptions ==
  {
    <<"a">>, <<"a","n">>, <<"a","n","d">>, <<"a","s">>,
    <<"a","t">>, <<"b","u","t">>, <<"b","y">>, <<"f","o","r">>,
    <<"f","r","o","m">>, <<"i","n">>, <<"n","o","r">>, <<"o","f">>,
    <<"o","n">>, <<"o","r">>, <<"s","o">>, <<"t","h","e">>,
    <<"t","o">>, <<"w","i","t","h">>, <<"y","e","t">>
  }

\* ":", "~", "-", en dash, em dash
subtitle_markers == {":", "~", "-", "U+2013", "U+2014"}

\* if sep in w: sub = w.split(sep); if all(is_roman_numeral(x) for x in sub)
SepRoman(w, sep) ==
    LET sub == Split(w, sep)
    IN  Contains(w, <<sep>>) /\ \A i \in DOMAIN sub : is_roman_numeral(sub[i])

\* sep.join(x.upper() for x in sub)
RomanJoin(w, sep) ==
    LET sub == Split(w, sep)
    IN  Join([i \in DOMAIN sub |-> Upper(sub[i])], <<sep>>)

\* Mutant: the acronym is looked up as written, not in upper case
cap_special_AsWritten(w) ==
    IF w \in ACRONYMS THEN Upper(w)
    ELSE IF is_roman_numeral(w) THEN Upper(w)
    ELSE IF SepRoman(w, "&") THEN RomanJoin(w, "&")
    ELSE IF SepRoman(w, "+") THEN RomanJoin(w, "+")
    ELSE IF SepRoman(w, "|") THEN RomanJoin(w, "|")
    ELSE capitalize_hyphenated(w)

cap_special(w) ==
    IF Upper(w) \in ACRONYMS THEN Upper(w)
    ELSE IF is_roman_numeral(w) THEN Upper(w)
    ELSE IF SepRoman(w, "&") THEN RomanJoin(w, "&")
    ELSE IF SepRoman(w, "+") THEN RomanJoin(w, "+")
    ELSE IF SepRoman(w, "|") THEN RomanJoin(w, "|")
    ELSE capitalize_hyphenated(w)

\* '-'.join(cap_special(sp) for sp in part.split('-'))
CapParts(part) ==
    LET sps == Split(part, "-")
    IN  Join([i \in DOMAIN sps |-> cap_special(sps[i])], <<"-">>)

\* re.split(r'([:~\-..])', word): the texts and the one-character markers
\* between them, in order
RECURSIVE MarkerSplitFrom(_, _, _)
MarkerSplitFrom(word, i, cur) ==
    IF i > Len(word) THEN <<cur>>
    ELSE IF word[i] \in subtitle_markers
         THEN <<cur, <<word[i]>>>> \o MarkerSplitFrom(word, i + 1, <<>>)
         ELSE MarkerSplitFrom(word, i + 1, Append(cur, word[i]))

\* Mutant: the pattern without its capture group, the markers are lost
MarkerSplit_NoGroup(word) == SelectSeq(MarkerSplitFrom(word, 1, <<>>), LAMBDA p : ~(Len(p) = 1 /\ p[1] \in subtitle_markers))

MarkerSplit(word) == MarkerSplitFrom(word, 1, <<>>)

IsMarker(part) == Len(part) = 1 /\ part[1] \in subtitle_markers

\* The condition of line 67: the part is capitalized
Wins(part, force_cap, is_first, is_last) ==
    force_cap \/ is_first \/ is_last \/ (Lower(part) \notin lowercase_exceptions)

\* The inner loop over the parts of one word: the word's output and force_cap
\* after it
RECURSIVE WordParts(_, _, _, _, _, _)
WordParts(ps, k, force_cap, is_first, is_last, out) ==
    IF k > Len(ps) THEN [out |-> out, force_cap |-> force_cap]
    ELSE IF IsMarker(ps[k])
         THEN WordParts(ps, k + 1, TRUE, is_first, is_last, out \o ps[k])
         ELSE WordParts(ps, k + 1, force_cap, is_first, is_last,
                        out \o (IF Wins(ps[k], force_cap, is_first, is_last)
                                THEN CapParts(ps[k])
                                ELSE Lower(ps[k])))

contains_marker(word) == \E i \in DOMAIN word : word[i] \in subtitle_markers

\* Mutant: force_cap is never reset
RECURSIVE WordLoop_NoReset(_, _, _)
WordLoop_NoReset(words, idx, force_cap) ==
    IF idx > Len(words) THEN <<>>
    ELSE LET r == WordParts(MarkerSplit(words[idx]), 1, force_cap,
                            idx = 1, idx = Len(words), <<>>)
         IN  <<r.out>> \o WordLoop_NoReset(words, idx + 1, r.force_cap)

\* Mutant: force_cap is reset after every word
RECURSIVE WordLoop_AlwaysReset(_, _, _)
WordLoop_AlwaysReset(words, idx, force_cap) ==
    IF idx > Len(words) THEN <<>>
    ELSE LET r == WordParts(MarkerSplit(words[idx]), 1, force_cap,
                            idx = 1, idx = Len(words), <<>>)
         IN  <<r.out>> \o WordLoop_AlwaysReset(words, idx + 1, FALSE)

\* The outer loop over the words: result
RECURSIVE WordLoop(_, _, _)
WordLoop(words, idx, force_cap) ==
    IF idx > Len(words) THEN <<>>
    ELSE LET r == WordParts(MarkerSplit(words[idx]), 1, force_cap,
                            idx = 1, idx = Len(words), <<>>)
         IN  <<r.out>> \o
             WordLoop(words, idx + 1,
                      IF contains_marker(words[idx]) THEN r.force_cap ELSE FALSE)

\* Lines 75 and 76: the fix-up of the first and of the last word
FixPiece(sp) ==
    IF Upper(sp) \in ACRONYMS \/ is_roman_numeral(sp) THEN Upper(sp)
    ELSE capitalize_hyphenated(sp)

\* Mutant: the pieces of the fixed-up word are joined without their hyphens
FixEdge_NoHyphens(w) ==
    LET sps == Split(w, "-")
    IN  Flatten([i \in DOMAIN sps |-> FixPiece(sps[i])])

FixEdge(w) ==
    LET sps == Split(w, "-")
    IN  Join([i \in DOMAIN sps |-> FixPiece(sps[i])], <<"-">>)

FixUp(result) ==
    IF result = <<>> THEN result
    ELSE LET r1 == [result EXCEPT ![1] = FixEdge(result[1])]
         IN  [r1 EXCEPT ![Len(r1)] = FixEdge(r1[Len(r1)])]

title_case_preserve_numbers(name) ==
    Join(FixUp(WordLoop(SplitWords(name), 1, FALSE)), <<" ">>)

clean_title(name) == title_case_preserve_numbers(sanitize_name(name))

(***************************************************************************)
(* Path interpreters                                                       *)
(*                                                                         *)
(* parts is os.path.relpath(path, root_dir).split(os.sep): the segments    *)
(* from the root to the directory that holds the content file.             *)
(***************************************************************************)
\* relative_path, the segments joined by os.sep
RelativePath(ps) == Join(ps, <<"/">>)

\* The index of the first "]" after position i, 0 when there is none
\* ("." does not match a line break)
CloseAfter(s, i) ==
    LET js == {j \in (i + 1)..Len(s) :
                  /\ s[j] = "]"
                  /\ \A k \in (i + 1)..(j - 1) : s[k] # "\n"}
    IN  IF js = {} THEN 0 ELSE CHOOSE j \in js : \A k \in js : j <= k

\* re.sub(r'\[.*?\]', '', s)
RECURSIVE StripBracketsFrom(_, _)
StripBracketsFrom(s, i) ==
    IF i > Len(s) THEN <<>>
    ELSE IF s[i] = "[" /\ CloseAfter(s, i) # 0
         THEN StripBracketsFrom(s, CloseAfter(s, i) + 1)
         ELSE <<s[i]>> \o StripBracketsFrom(s, i + 1)

StripBrackets(s) == StripBracketsFrom(s, 1)

\* re.search(r'\[.*?\]', s)
HasBracket(s) == \E i \in DOMAIN s : s[i] = "[" /\ CloseAfter(s, i) # 0

\* re.search(r' v\d+', s)
HasVersionSuffix(s) ==
    \E i \in DOMAIN s :
        i + 2 <= Len(s) /\ s[i] = " " /\ s[i + 1] = "v" /\ s[i + 2] \in Digits

CommaThe == <<","," ","T","h","e">>
AspectRatio == <<"A","s","p","e","c","t"," ","R","a","t","i","o">>

\* if ", The" in g: p = g.split(", The"); g = f"The {p[0]}{p[1]}"
MoveThe(g) ==
    IF Contains(g, CommaThe)
    THEN LET p == SplitStr(g, CommaThe) IN <<"T", "h", "e", " ">> \o p[1] \o p[2]
    ELSE g

\* The loop over parts[1:]: the first segment with a bracketed tag, its tags
\* removed and stripped; None (Python's None) when no segment has one
RECURSIVE CountryFrom(_, _)
CountryFrom(ps, i) ==
    IF i > Len(ps) THEN None
    ELSE IF HasBracket(ps[i]) THEN Strip(StripBrackets(ps[i]))
    ELSE CountryFrom(ps, i + 1)

Country(ps) == CountryFrom(ps, 2)

\* "if country:" - neither None nor the empty string
Truthy(s) == s # None /\ s # <<>>

\* f"{raw_game} ({country})" when a country was found
WithCountry(raw_game, country) ==
    IF Truthy(country) THEN raw_game \o <<" ", "(">> \o country \o <<")">> ELSE raw_game

Raised == [raised |-> TRUE, game_name |-> None, mod_name |-> None]
Returned(g, m) == [raised |-> FALSE, game_name |-> g, mod_name |-> m]

(* KeatonTheBot *)
\* The directory main() hands to create_formatted_structure as the root
KeatonRoot == <<"s","w","i","t","c","h","-","p","c","h","t","x","t","-","m","o","d","s","-","m","a","i","n">>

transform_game_name(game_name) ==
    Replace(MoveThe(game_name), <<" ", "-", " ">>, <<" ">>)

KeatonRawGame(ps) ==
    WithCountry(transform_game_name(Strip(StripBrackets(ps[1]))), Country(ps))

\* os.path.basename(os.path.dirname(path)): the segment above the last one,
\* the root directory itself when the path has one segment
KeatonAspectFolder(ps) == IF Len(ps) >= 2 THEN ps[Len(ps) - 1] ELSE KeatonRoot

\* Mutant: the version marker is looked for before "Aspect Ratio"
KeatonRawMod_VersionFirst(ps) ==
    IF HasVersionSuffix(ps[Len(ps)])
    THEN IF Len(ps) >= 2
         THEN [raised |-> FALSE, raw_mod |-> ps[Len(ps) - 1] \o <<" ">> \o ps[Len(ps)]]
         ELSE [raised |-> TRUE, raw_mod |-> None]
    ELSE IF Contains(RelativePath(ps), AspectRatio)
    THEN [raised |-> FALSE,
          raw_mod |-> AspectRatio \o <<" ">> \o Replace(KeatonAspectFolder(ps), <<"'">>, <<".">>)]
    ELSE IF Len(ps) >= 2
    THEN [raised |-> FALSE, raw_mod |-> ps[Len(ps) - 1]]
    ELSE [raised |-> FALSE, raw_mod |-> <<"M","o","d","s">>]

\* Lines 127-142; parts[-2] raises IndexError on a path of one segment
KeatonRawMod(ps) ==
    IF Contains(RelativePath(ps), AspectRatio)
    THEN [raised |-> FALSE,
          raw_mod |-> AspectRatio \o <<" ">> \o Replace(KeatonAspectFolder(ps), <<"'">>, <<".">>)]
    ELSE IF HasVersionSuffix(ps[Len(ps)])
    THEN IF Len(ps) >= 2
         THEN [raised |-> FALSE, raw_mod |-> ps[Len(ps) - 1] \o <<" ">> \o ps[Len(ps)]]
         ELSE [raised |-> TRUE, raw_mod |-> None]
    ELSE IF Len(ps) >= 2
    THEN [raised |-> FALSE, raw_mod |-> ps[Len(ps) - 1]]
    ELSE [raised |-> FALSE, raw_mod |-> <<"M","o","d","s">>]

keaton_get_game_name_and_mod_name(ps) ==
    LET m == KeatonRawMod(ps)
    IN  IF m.raised THEN Raised
        ELSE Returned(clean_title(KeatonRawGame(ps)), clean_title(m.raw_mod))

(* theboy181 *)
transform_game_name_raw(raw_game) ==
    Replace(Replace(MoveThe(raw_game), <<":">>, <<>>), <<" ", "-", " ">>, <<" ">>)

TheboyRawGame(ps) ==
    WithCountry(transform_game_name_raw(Strip(StripBrackets(ps[1]))), Country(ps))

\* Lines 153-162
TheboyModRule(ps) ==
    IF Contains(RelativePath(ps), AspectRatio)
    THEN AspectRatio \o <<" ">> \o ps[Len(ps)]
    ELSE IF HasVersionSuffix(ps[Len(ps)])
    THEN Strip((IF Len(ps) > 2 THEN ps[Len(ps) - 1] ELSE <<>>) \o <<" ">> \o ps[Len(ps)])
    ELSE IF Len(ps) > 1 THEN ps[Len(ps) - 1] ELSE <<>>

\* The rewrites of lines 164-167 without the special case of lines 168-169
TheboyRawMod_NoSpecialCase(ps) ==
    LET m1 == Strip(TheboyModRule(ps))
        m2 == Replace(Replace(m1, <<"'">>, <<".">>), <<"U+0060">>, <<".">>)
        m3 == Replace(m2, <<"2", "1", "-", "9">>, <<"2", "1", ".", "9">>)
    IN  Replace(m3, <<":">>, <<>>)

\* Lines 164-169
TheboyRawMod(ps) ==
    LET m1 == Strip(TheboyModRule(ps))
        m2 == Replace(Replace(m1, <<"'">>, <<".">>), <<"U+0060">>, <<".">>)
        m3 == Replace(m2, <<"2", "1", "-", "9">>, <<"2", "1", ".", "9">>)
        m4 == Replace(m3, <<":">>, <<>>)
    IN  IF m4 = <<"T","r","a","i","l","b","l","a","z","e","r","s">> THEN <<"4", "K">> ELSE m4

theboy_get_game_name_and_mod_name(ps) ==
    LET raw_mod == TheboyRawMod(ps)
    IN  Returned(clean_title(TheboyRawGame(ps)),
                 IF raw_mod # <<>> THEN clean_title(raw_mod) ELSE <<"M","o","d","s">>)

(* StevensND *)
\* The index after the run of digits that starts at i
RECURSIVE DigitsEnd(_, _)
DigitsEnd(s, i) == IF i <= Len(s) /\ s[i] \in Digits THEN DigitsEnd(s, i + 1) ELSE i

\* A "." and a digit start at i: one more \.\d+ group
DotDigit(s, i) == i + 1 <= Len(s) /\ s[i] = "." /\ s[i + 1] \in Digits

\* \b between s[i-1] and s[i], where one of the two is known to be a word
\* character
WordStart(s, i) == i = 1 \/ ~IsWordChar(s[i - 1])
WordEnd(s, e) == e > Len(s) \/ ~IsWordChar(s[e])

\* \b(v?\d+(?:\.\d+){1,2})\b (IGNORECASE) matched at i: the index after the
\* match, 0 when there is no match at i.  Two \.\d+ groups are tried before one.
VersionEndAt(s, i) ==
    LET d0 == IF LowerChar(s[i]) = "v" THEN i + 1 ELSE i
        e0 == DigitsEnd(s, d0)
        e1 == DigitsEnd(s, e0 + 1)
        e2 == DigitsEnd(s, e1 + 1)
    IN  IF ~(WordStart(s, i) /\ e0 > d0 /\ DotDigit(s, e0)) THEN 0
        ELSE IF DotDigit(s, e1) /\ WordEnd(s, e2) THEN e2
        ELSE IF WordEnd(s, e1) THEN e1
        ELSE 0

RECURSIVE StripVersionsFrom(_, _)
StripVersionsFrom(s, i) ==
    IF i > Len(s) THEN <<>>
    ELSE IF VersionEndAt(s, i) # 0 THEN StripVersionsFrom(s, VersionEndAt(s, i))
    ELSE <<s[i]>> \o StripVersionsFrom(s, i + 1)

strip_versions(text) == Strip(StripVersionsFrom(text, 1))

StevensRawGame(ps) ==
    WithCountry(Replace(MoveThe(Strip(StripBrackets(ps[1]))), <<" ", "-", " ">>, <<" ">>),
                Country(ps))

\* Lines 111-112
StevensSubFolders(ps) ==
    SelectSeq([i \in 1..(Len(ps) - 1) |-> Strip(StripBrackets(ps[i + 1]))],
              LAMBDA sf : Lower(sf) # <<"p", "c", "h", "t", "x", "t">>)

\* The index after group 1 of ^([0-9]+(?:\.[0-9]+)*)\s*(.*)$, matched at a digit
RECURSIVE NumberEnd(_, _)
NumberEnd(s, i) ==
    LET e == DigitsEnd(s, i)
    IN  IF DotDigit(s, e) THEN NumberEnd(s, e + 1) ELSE e

\* Lines 118-125: a leading version number is dropped from the first folder
DropLeadingNumber(sfs) ==
    IF sfs # <<>> /\ sfs[1] # <<>> /\ sfs[1][1] \in Digits
    THEN LET e == NumberEnd(sfs[1], 1)
             trailing == Strip(SubSeq(sfs[1], e, Len(sfs[1])))
         IN  IF trailing # <<>> THEN [sfs EXCEPT ![1] = trailing] ELSE Tail(sfs)
    ELSE sfs

\* Lines 127-131: the country is dropped from the front of the first folder
DropCountry(sfs, country) ==
    IF Truthy(country) /\ sfs # <<>> /\ StartsAt(Lower(sfs[1]), 1, Lower(country))
    THEN [sfs EXCEPT ![1] = LStrip(SubSeq(sfs[1], Len(country) + 1, Len(sfs[1])))]
    ELSE sfs

\* re.match(r'^(.*)\s+v[0-9.]+$', s, re.IGNORECASE): the places of the "v"
VSuffixAt(s) ==
    {k \in 2..(Len(s) - 1) :
        /\ LowerChar(s[k]) = "v"
        /\ IsSpace(s[k - 1])
        /\ \A j \in (k + 1)..Len(s) : s[j] \in Digits \cup {"."}
        /\ \A j \in 1..(k - 2) : s[j] # "\n"}

\* Lines 139-141
DropVSuffix(s) ==
    IF VSuffixAt(s) # {}
    THEN Strip(SubSeq(s, 1, (CHOOSE k \in VSuffixAt(s) : TRUE) - 2))
    ELSE s

\* Lines 114-141
StevensRawMod(ps) ==
    IF Contains(RelativePath(ps), AspectRatio)
    THEN AspectRatio \o <<" ">> \o ps[Len(ps)]
    ELSE LET sfs == DropCountry(DropLeadingNumber(StevensSubFolders(ps)), Country(ps))
             joined == IF sfs # <<>> THEN Strip(Join(sfs, <<" ">>)) ELSE <<"P","o","r","t"," ","M","o","d","s">>
         IN  DropVSuffix(strip_versions(joined))

stevens_get_game_name_and_mod_name(ps) ==
    LET raw_mod == StevensRawMod(ps)
    IN  Returned(clean_title(StevensRawGame(ps)),
                 IF raw_mod # <<>> THEN clean_title(raw_mod) ELSE <<"P","o","r","t"," ","M","o","d","s">>)

(* Fl4sh9174: the names create_formatted_structure derives, lines 110-125 *)
\* re.search(r'\[(.*?)\]', s): the index of the "[" of the first match, 0 when
\* there is none
FirstBracket(s) ==
    LET is == {i \in DOMAIN s : s[i] = "[" /\ CloseAfter(s, i) # 0}
    IN  IF is = {} THEN 0 ELSE CHOOSE i \in is : \A k \in is : i <= k

\* re.sub(r' v[0-9.]+$', '', s)
DropVersionTail(s) ==
    LET is == {i \in 1..(Len(s) - 2) :
                  /\ s[i] = " " /\ s[i + 1] = "v"
                  /\ \A j \in (i + 2)..Len(s) : s[j] \in Digits \cup {"."}}
    IN  IF is = {} THEN s ELSE SubSeq(s, 1, (CHOOSE i \in is : TRUE) - 1)

Fl4shModName(ps) ==
    LET rel == RelativePath(ps)
        i == FirstBracket(rel)
    IN  IF i = 0 THEN <<"U","l","t","r","a","w","i","d","e"," ","M","o","d","s">>
        ELSE clean_title(Strip(DropVersionTail(SubSeq(rel, i + 1, CloseAfter(rel, i) - 1))))

fl4sh_names(ps) == Returned(clean_title(ps[1]), Fl4shModName(ps))

(***************************************************************************)
(* Inputs                                                                  *)
(***************************************************************************)
MaxPhrases == 3
MaxFrags == 4

\* The sequences of at most n elements of S
SeqUpTo(S, n) == UNION {[1..k -> S] : k \in 0..n}

\* Phrases of the labels given to the title caser: two exception words, a roman
\* numeral, an acronym, a plain word, a word that ends in a subtitle marker
\* followed by an exception word, a word with a marker inside, roman numerals
\* joined by "&", a hyphenated pair of exception words, a lone en dash
TitlePhrases ==
  {
    <<"o","F">>, <<"T","H","E">>, <<"i","x">>, <<"d","o","f">>, <<"g","A","m","e">>,
    <<"x",":"," ","a">>, <<"a",":","o","f">>, <<"i","&","i","i">>, <<"o","f","-","a">>, <<"U+2013">>
  }

\* How the phrases of a label are laid out: the gap between two of them and the
\* padding at both ends
Layouts ==
  { [gap |-> <<" ">>, pad |-> <<>>],
    [gap |-> <<"\t", " ">>, pad |-> <<" ">>] }

TitleLabels ==
    { l.pad \o Join(ws, l.gap) \o l.pad :
        ws \in SeqUpTo(TitlePhrases, MaxPhrases), l \in Layouts }

\* Fragments of the raw labels given to the sanitizer: a letter, a space, a
\* space and a hyphen, " - ", a tab, the four quote characters, an accented
\* letter, "Bros." in another case
RawFragments ==
  {
    <<"a">>, <<" ">>, <<" ","-">>, <<" ","-"," ">>,
    <<"\t">>, <<"'","U+2019","\"","U+0060">>, <<"U+00E9">>, <<"b","R","O","S",".">>
  }

RawLabels == { Flatten(fs) : fs \in SeqUpTo(RawFragments, MaxFrags) }

(***************************************************************************)
(* The title caser applied to a label, and again to its own result         *)
(***************************************************************************)
InitTitle ==
    /\ pc = "label"
    /\ raw \in TitleLabels
    /\ sanitized = None /\ titled = None /\ retitled = None
    /\ variant = None /\ parts = None /\ names = None
    /\ archives = <<>> /\ files = <<>> /\ output = {} /\ log = <<>>

TitleCase ==
    /\ pc = "label"
    /\ titled' = title_case_preserve_numbers(raw)
    /\ pc' = "titled"
    /\ UNCHANGED <<raw, sanitized, retitled, variant, parts, names, driverVars>>

TitleCaseAgain ==
    /\ pc = "titled"
    /\ retitled' = title_case_preserve_numbers(titled)
    /\ pc' = "retitled"
    /\ UNCHANGED <<raw, sanitized, titled, variant, parts, names, driverVars>>

NextTitle == TitleCase \/ TitleCaseAgain

SpecTitle == InitTitle /\ [][NextTitle]_vars

(***************************************************************************)
(* The sanitizer, and clean_title, applied to a raw label                  *)
(***************************************************************************)
InitSanitize ==
    /\ pc = "raw"
    /\ raw \in RawLabels
    /\ sanitized = None /\ titled = None /\ retitled = None
    /\ variant = None /\ parts = None /\ names = None
    /\ archives = <<>> /\ files = <<>> /\ output = {} /\ log = <<>>

Sanitize ==
    /\ pc = "raw"
    /\ sanitized' = sanitize_name(raw)
    /\ pc' = "sanitized"
    /\ UNCHANGED <<raw, titled, retitled, variant, parts, names, driverVars>>

CleanTitle ==
    /\ pc = "raw"
    /\ sanitized' = sanitize_name(raw)
    /\ titled' = clean_title(raw)
    /\ pc' = "cleaned"
    /\ UNCHANGED <<raw, retitled, variant, parts, names, driverVars>>

\* Fl4sh9174 cleans the folder name that unzip_files cleaned (line 90) once
\* more in create_formatted_structure (line 110)
CleanTitleAgain ==
    /\ pc = "cleaned"
    /\ retitled' = clean_title(titled)
    /\ pc' = "recleaned"
    /\ UNCHANGED <<raw, sanitized, titled, variant, parts, names, driverVars>>

NextSanitize == Sanitize \/ CleanTitle \/ CleanTitleAgain

SpecSanitize == InitSanitize /\ [][NextSanitize]_vars
(***************************************************************************)
(* A path interpreter applied to the directory of a content file           *)
(***************************************************************************)
MaxSubFolders == 2

\* Names of the folder right below the root: a plain one, one with a version
\* marker, a bracketed tag alone, a ", The" title, the Aspect Ratio folder, a
\* name the sanitizer deletes
GameFolders ==
  {
    <<"G","a","m","e">>, <<"G","a","m","e"," ","v","2">>, <<"[","F","o","o","]">>, <<"Z","e","l","d","a",","," ","T","h","e">>,
    <<"A","s","p","e","c","t"," ","R","a","t","i","o">>, <<"'">>
  }

\* Names of the folders below it: a plain one, one with a version marker, the
\* Aspect Ratio folder and a ratio, a name the sanitizer deletes, a country
\* with a tag, a tag alone, a numbered folder, the pchtxt folder, Trailblazers,
\* an empty tag
SubFolders ==
  {
    <<"M","o","d">>, <<"M","o","d"," ","v","2">>, <<"A","s","p","e","c","t"," ","R","a","t","i","o">>, <<"2","1","-","9">>,
    <<"'">>, <<"U","S","A"," ","[","x","]">>, <<"[","F","o","o","]">>, <<"1",".","0"," ","M","o","d">>,
    <<"p","c","h","t","x","t">>, <<"T","r","a","i","l","b","l","a","z","e","r","s">>, <<"[","]">>
  }

Paths == { <<g>> \o sub : g \in GameFolders, sub \in SeqUpTo(SubFolders, MaxSubFolders) }

InitPath ==
    /\ pc = "path"
    /\ parts \in Paths
    /\ raw = None /\ sanitized = None /\ titled = None /\ retitled = None
    /\ variant = None /\ names = None
    /\ archives = <<>> /\ files = <<>> /\ output = {} /\ log = <<>>

Derive(v, result) ==
    /\ pc = "path"
    /\ variant' = v
    /\ names' = result
    /\ pc' = IF result.raised THEN "raised" ELSE "named"
    /\ UNCHANGED <<raw, sanitized, titled, retitled, parts, driverVars>>

DeriveKeaton == Derive("KeatonTheBot", keaton_get_game_name_and_mod_name(parts))
DeriveTheboy == Derive("theboy181", theboy_get_game_name_and_mod_name(parts))
DeriveStevens == Derive("StevensND", stevens_get_game_name_and_mod_name(parts))
DeriveFl4sh == Derive("Fl4sh9174", fl4sh_names(parts))

NextPath == DeriveKeaton \/ DeriveTheboy \/ DeriveStevens \/ DeriveFl4sh

SpecPath == InitPath /\ [][NextPath]_vars

(***************************************************************************)
(* The drivers: archives are extracted, then every content file is copied  *)
(* into "<game> - <mod>/<version>.pchtxt" and gets its Title-ID marker     *)
(***************************************************************************)
TitleIdLen == 16

\* The character class without its lower-case range
HexDigits_UpperOnly == Digits \cup {"A","B","C","D","E","F"}

HexDigits == Digits \cup {"a","b","c","d","e","f"} \cup {"A","B","C","D","E","F"}

\* A byte that is no UTF-8: open(..., errors='ignore') drops it from the text
BadByte == "0xFF"

Decode(bytes) == SelectSeq(bytes, LAMBDA b : b # BadByte)

\* \[([0-9A-Fa-f]{16})\] matches at position i of content
TitleIdAt(content, i) ==
    /\ i + TitleIdLen + 1 <= Len(content)
    /\ content[i] = "["
    /\ \A k \in 1..TitleIdLen : content[i + k] \in HexDigits
    /\ content[i + TitleIdLen + 1] = "]"

RECURSIVE TitleIdFrom(_, _)
TitleIdFrom(content, i) ==
    IF i > Len(content) THEN None
    ELSE IF TitleIdAt(content, i) THEN SubSeq(content, i + 1, i + TitleIdLen)
    ELSE TitleIdFrom(content, i + 1)

\* re.search(...).group(1), or None when there is no match
title_id_match(content) == TitleIdFrom(content, 1)

Ext == <<".","p","c","h","t","x","t">>
Zip == <<".","z","i","p">>
Rar == <<".","r","a","r">>

KeatonTheBot == "KeatonTheBot"
theboy181 == "theboy181"
StevensND == "StevensND"
Fl4sh9174 == "Fl4sh9174"
Variants == {KeatonTheBot, theboy181, StevensND, Fl4sh9174}

get_game_name_and_mod_name(v, ps) ==
    CASE v = KeatonTheBot -> keaton_get_game_name_and_mod_name(ps)
      [] v = theboy181 -> theboy_get_game_name_and_mod_name(ps)
      [] v = StevensND -> stevens_get_game_name_and_mod_name(ps)
      [] v = Fl4sh9174 -> fl4sh_names(ps)

\* The output directory of a file: only theboy181 and StevensND strip it
new_dir(v, nm) ==
    LET combined == nm.game_name \o <<" ", "-", " ">> \o nm.mod_name
    IN IF v \in {theboy181, StevensND} THEN RStrip(combined) ELSE combined

\* The walk skips a directory whose path has one of these in it
SkipWords == { <<"f","o","r","m","a","t","t","e","d">>, <<".","g","i","t">>,
               <<"_","_","p","y","c","a","c","h","e","_","_">> }

Skipped(v, dir) ==
    IF v = Fl4sh9174 THEN dir[1] = <<"f","o","r","m","a","t","t","e","d">>
    ELSE \E i \in DOMAIN dir : \E w \in SkipWords : Contains(Lower(dir[i]), w)

\* Writing a file replaces the one of that name in that directory
Put(tree, f) == { x \in tree : ~(x.dir = f.dir /\ x.name = f.name) } \cup {f}

IsPrefix(p, d) == Len(p) <= Len(d) /\ SubSeq(d, 1, Len(p)) = p

\* os.walk goes top-down and depth-first: the files of a directory come before
\* those of its subdirectories, and the files below one directory are adjacent
InWalkOrder(fs) ==
    /\ \A i, j \in DOMAIN fs :
          i < j => ~(fs[j].dir # fs[i].dir /\ IsPrefix(fs[j].dir, fs[i].dir))
    /\ \A i, j, k \in DOMAIN fs :
          (i < j /\ j < k) =>
              \A n \in 0..Len(fs[i].dir) :
                  LET p == SubSeq(fs[i].dir, 1, n)
                  IN IsPrefix(p, fs[k].dir) => IsPrefix(p, fs[j].dir)

\* A file extracted from an archive replaces the source file of that name; the
\* walk meets it wherever its directory comes
Landings(fs, f) ==
    LET rest == SelectSeq(fs, LAMBDA x : ~(x.dir = f.dir /\ x.file = f.file))
    IN { l \in { SubSeq(rest, 1, n) \o <<f>> \o SubSeq(rest, n + 1, Len(rest)) :
                  n \in 0..Len(rest) } : InWalkOrder(l) }

\* The archive's name without its bracketed tags and its extension
raw_game_name(item) == Strip(Replace(StripBrackets(item), Zip, <<>>))

(***************************************************************************)
(* Inputs of a driver run                                                  *)
(***************************************************************************)
MaxFiles == 2
MaxChunks == 5

IdA == <<"0","1","0","0","A","B","C","D","E","F","0","0","0","0","0","0">>
IdB == <<"0","1","0","0","6","f","8","0","0","2","3","2","6","0","0","0">>
Tagged(id) == <<"[">> \o id \o <<"]">>

\* What a content file holds: a Title ID, another one, none
DriverContents == { <<"@">> \o Tagged(IdA), Tagged(IdB) \o Tagged(IdA), <<"@">> }

\* Where the content files are: two files of one folder whose names differ by
\* a trailing space only, a file in a single folder with a version marker, a
\* file in a folder the walk skips
DriverFiles ==
  { [dir |-> <<<<"G","a","m","e">>, <<"M","o","d">>>>, file |-> <<"1">>],
    [dir |-> <<<<"G","a","m","e">>, <<"M","o","d">>>>, file |-> <<"1", " ">>],
    [dir |-> <<<<"G","a","m","e"," ","v","2">>>>, file |-> <<"1">>],
    [dir |-> <<<<".","g","i","t">>>>, file |-> <<"1">>] }

SourceFiles ==
    { [dir |-> k.dir, file |-> k.file, content |-> c] :
        k \in DriverFiles, c \in DriverContents }

\* Lists of files, no two of which are the same file, in an order of the walk
FileLists(n) ==
    { fs \in SeqUpTo(SourceFiles, n) :
        /\ \A i, j \in DOMAIN fs :
              (fs[i].dir = fs[j].dir /\ fs[i].file = fs[j].file) => i = j
        /\ InWalkOrder(fs) }

\* Two archives of the root folder, by the extension the variant looks for
Archives(ext) ==
  { [item |-> <<"a"," ","-"," ","-"," ","b"," ","[","x","]">> \o ext,
     payload |-> [dir |-> <<<<"M","o","d">>>>, file |-> <<"1">>, content |-> <<"@">> \o Tagged(IdA)]],
    [item |-> <<"G","a","m","e">> \o ext,
     payload |-> [dir |-> <<<<"M","o","d">>>>, file |-> <<"1">>, content |-> <<"@">>]] }

ArchiveLists(ext) ==
    { as \in SeqUpTo(Archives(ext), 2) : \A i, j \in DOMAIN as : as[i] = as[j] => i = j }

\* Pieces of the contents given to the Title-ID scan: the brackets, a letter
\* that is no hex digit, a hex digit, fifteen hex digits in both cases, a
\* whole Title ID in brackets, a byte that is no UTF-8
ContentChunks ==
  { <<"[">>, <<"]">>, <<"g">>, <<"f">>, <<"0","1","2","3","4","5","6","7","8","9","a","b","C","D","E">>, Tagged(IdB), <<BadByte>> }

TitleIdContents == { Flatten(cs) : cs \in SeqUpTo(ContentChunks, MaxChunks) }

(***************************************************************************)
(* A driver run                                                            *)
(***************************************************************************)
nameVars == <<raw, sanitized, titled, retitled, parts, names>>

Faults == {"none", "copy", "read", "marker"}

InitDriver ==
    /\ variant \in Variants
    /\ archives \in CASE variant = theboy181 -> ArchiveLists(Rar)
                      [] variant = Fl4sh9174 -> ArchiveLists(Zip)
                      [] OTHER -> {<<>>}
    /\ files \in FileLists(MaxFiles)
    /\ pc = IF variant \in {theboy181, Fl4sh9174} THEN "archives" ELSE "walking"
    /\ output = {} /\ log = <<>>
    /\ raw = None /\ sanitized = None /\ titled = None /\ retitled = None
    /\ parts = None /\ names = None

\* One archive of extract_rar_files: a failure is caught and the loop goes on
ExtractRar ==
    /\ pc = "archives" /\ variant = theboy181 /\ archives # <<>>
    /\ \E ok \in BOOLEAN :
        LET a == Head(archives)
        IN /\ files' \in IF ok THEN Landings(files, a.payload) ELSE {files}
           /\ log' = Append(log, [src |-> a.item,
                                  line |-> IF ok THEN "Extracted archive"
                                           ELSE "Failed to extract"])
    /\ archives' = Tail(archives)
    /\ UNCHANGED <<pc, variant, output, nameVars>>

\* One archive of unzip_files: nothing catches a failure
Unzip ==
    /\ pc = "archives" /\ variant = Fl4sh9174 /\ archives # <<>>
    /\ \E ok \in BOOLEAN :
        LET a == Head(archives)
            cleaned_game_name == clean_title(raw_game_name(a.item))
            extracted == [a.payload EXCEPT !.dir = <<cleaned_game_name>> \o @]
        IN IF ok
           THEN /\ files' \in Landings(files, extracted)
                /\ archives' = Tail(archives)
                /\ log' = Append(log, [src |-> a.item, line |-> "Unzipped"])
                /\ pc' = pc
           ELSE /\ pc' = "aborted"
                /\ UNCHANGED <<archives, files, log>>
    /\ UNCHANGED <<variant, output, nameVars>>

BeginWalk ==
    /\ pc = "archives" /\ archives = <<>>
    /\ pc' = "walking"
    /\ UNCHANGED <<variant, driverVars, nameVars>>

\* A directory the walk passes over
SkipDirectory ==
    /\ pc = "walking" /\ files # <<>>
    /\ Skipped(variant, Head(files).dir)
    /\ files' = Tail(files)
    /\ UNCHANGED <<pc, variant, archives, output, log, nameVars>>

\* The body of the loop for one content file, with the step that fails
ProcessFile ==
    /\ pc = "walking" /\ files # <<>>
    /\ ~Skipped(variant, Head(files).dir)
    /\ \E nm \in {get_game_name_and_mod_name(variant, Head(files).dir)},
          title_id \in {title_id_match(Decode(Head(files).content))} :
       LET f == Head(files)
           version == Strip(f.file)
           dir == new_dir(variant, nm)
           dst == [dir |-> dir, name |-> version \o Ext, content |-> f.content]
           flag == [dir |-> dir, name |-> version \o Ext \o <<"-">> \o title_id,
                    content |-> <<>>]
           said(line) == Append(log, [src |-> f.dir \o <<f.file \o Ext>>,
                                      dst |-> <<dir, version \o Ext>>, line |-> line])
       IN \E fault \in Faults :
           IF nm.raised \/ fault = "copy"
           THEN /\ pc' = "aborted"
                /\ UNCHANGED <<files, output, log>>
           ELSE /\ pc' = pc
                /\ files' = Tail(files)
                /\ IF fault = "read"
                   THEN output' = Put(output, dst) /\ log' = said("TitleID error")
                   ELSE IF title_id = None
                   THEN output' = Put(output, dst) /\ log' = said("No TitleID found")
                   ELSE IF fault = "marker"
                   THEN output' = Put(output, dst) /\ log' = said("TitleID error")
                   ELSE /\ output' = Put(Put(output, dst), flag)
                        /\ log' = said("TitleID")
    /\ UNCHANGED <<variant, archives, nameVars>>

FinishWalk ==
    /\ pc = "walking" /\ files = <<>>
    /\ pc' = "done"
    /\ UNCHANGED <<variant, driverVars, nameVars>>

NextDriver == ExtractRar \/ Unzip \/ BeginWalk \/ SkipDirectory \/ ProcessFile \/ FinishWalk

SpecDriver == InitDriver /\ [][NextDriver]_vars

(***************************************************************************)
(* One content file handled by a driver                                    *)
(***************************************************************************)
InitTitleId ==
    /\ variant = KeatonTheBot
    /\ archives = <<>>
    /\ \E c \in TitleIdContents :
        files = << [dir |-> <<<<"G","a","m","e">>, <<"M","o","d">>>>, file |-> <<"1">>,
                    content |-> c] >>
    /\ pc = "walking"
    /\ output = {} /\ log = <<>>
    /\ raw = None /\ sanitized = None /\ titled = None /\ retitled = None
    /\ parts = None /\ names = None

NextTitleId == ProcessFile \/ FinishWalk

SpecTitleId == InitTitleId /\ [][NextTitleId]_vars

(***************************************************************************)
(* The three together                                                      *)
(***************************************************************************)
Init == InitTitle \/ InitSanitize \/ InitPath

Next == NextTitle \/ NextSanitize \/ NextPath

Spec == Init /\ [][Next]_vars

(***************************************************************************)
(* Properties of the title caser (SpecTitle)                               *)
(***************************************************************************)
\* The words of the label and of its title-cased form
InWords == SplitWords(raw)
OutWords == SplitWords(titled)

\* A word with its first character upper case and the rest lower case
Capitalized(w) == <<UpperChar(w[1])>> \o Lower(Tail(w))

IsException(w) == Lower(w) \in lowercase_exceptions

\* C1: title_case applied to its own result gives that result again.
C1_Idempotent == pc = "retitled" => retitled = titled

\* C1 witness: a label of several words that title_case changed, title-cased
\* twice.
C1_Witness ==
    /\ pc = "retitled"
    /\ retitled = titled
    /\ titled # raw
    /\ Len(SplitWords(titled)) >= 3
    /\ \E i \in DOMAIN titled : titled[i] \in subtitle_markers

\* C2: a word whose upper-case form is an acronym, or that is a non-empty roman
\* numeral, is fully upper case in the result at every position of the label.
C2_AcronymRomanUpper ==
    pc = "titled" =>
        /\ Len(OutWords) = Len(InWords)
        /\ \A i \in DOMAIN InWords :
              (Upper(InWords[i]) \in ACRONYMS \/ is_roman_numeral(InWords[i]))
                  => OutWords[i] = Upper(InWords[i])

\* C2 witness: an acronym written in lower case in the middle of a label whose
\* first word is a roman numeral, both upper case in the result.
C2_Witness ==
    /\ pc = "titled"
    /\ Len(InWords) = 3
    /\ InWords[1] = <<"i", "x">> /\ OutWords[1] = <<"I", "X">>
    /\ InWords[2] = <<"d", "o", "f">> /\ OutWords[2] = <<"D", "O", "F">>

\* C3: an exception word without a separator is capitalized as the first or the
\* last word; as a middle word after a word without a separator it is lower
\* case, whatever came before that word.
C3_ExceptionWords ==
    pc = "titled" =>
        /\ Len(OutWords) = Len(InWords)
        /\ \A i \in DOMAIN InWords :
              (IsException(InWords[i]) /\ ~contains_marker(InWords[i])) =>
                  /\ (i = 1 \/ i = Len(InWords)) => OutWords[i] = Capitalized(InWords[i])
                  /\ (1 < i /\ i < Len(InWords) /\ ~contains_marker(InWords[i - 1]))
                        => OutWords[i] = Lower(InWords[i])

\* C3 witness: a separator, the exception word it forces, then a second
\* exception word in the middle of the label, left lower case; the last word an
\* exception word too, capitalized.
C3_Witness ==
    /\ pc = "titled"
    /\ \E i \in 3..(Len(InWords) - 1) :
          /\ contains_marker(InWords[i - 2])
          /\ IsException(InWords[i - 1]) /\ ~contains_marker(InWords[i - 1])
          /\ OutWords[i - 1] = Capitalized(InWords[i - 1])
          /\ IsException(InWords[i]) /\ ~contains_marker(InWords[i])
          /\ InWords[i] # Lower(InWords[i])
          /\ OutWords[i] = Lower(InWords[i])
    /\ IsException(InWords[Len(InWords)])
    /\ OutWords[Len(InWords)] = Capitalized(InWords[Len(InWords)])

\* C4: the word right after a word that contains a subtitle separator is
\* capitalized, also when it is an exception word in the middle of the label.
C4_AfterSeparator ==
    pc = "titled" =>
        /\ Len(OutWords) = Len(InWords)
        /\ \A i \in 2..Len(InWords) :
              contains_marker(InWords[i - 1]) =>
                  /\ OutWords[i][1] = UpperChar(InWords[i][1])
                  /\ IsException(InWords[i]) => OutWords[i] = Capitalized(InWords[i])

\* C4 witness: "x: a ..." gives "X: A ...", with "a" neither first nor last.
C4_Witness ==
    /\ pc = "titled"
    /\ Len(InWords) >= 3
    /\ InWords[1] = <<"x", ":">> /\ InWords[2] = <<"a">>
    /\ OutWords[1] = <<"X", ":">> /\ OutWords[2] = <<"A">>

(***************************************************************************)
(* Properties of the sanitizer (SpecSanitize)                              *)
(***************************************************************************)
\* C5: the sanitized label is ASCII, holds no apostrophe, backtick or double
\* quote, neither starts nor ends with whitespace and has no two whitespace
\* characters in a row; the empty label is allowed.
C5_SanitizedShape ==
    pc = "sanitized" =>
        /\ \A i \in DOMAIN sanitized : sanitized[i] \notin NonAscii
        /\ \A i \in DOMAIN sanitized : sanitized[i] \notin {"'", "U+0060", "\""}
        /\ sanitized # <<>> => (~IsSpace(sanitized[1]) /\ ~IsSpace(sanitized[Len(sanitized)]))
        /\ \A i \in 1..(Len(sanitized) - 1) : ~(IsSpace(sanitized[i]) /\ IsSpace(sanitized[i + 1]))

\* C5 witness: a raw label that starts with two spaces and holds the quote
\* characters and an accented letter, sanitized to a non-empty label.
C5_Witness ==
    /\ pc = "sanitized"
    /\ Len(raw) >= 2 /\ IsSpace(raw[1]) /\ IsSpace(raw[2])
    /\ \E i \in DOMAIN raw : raw[i] = "U+0060"
    /\ \E i \in DOMAIN raw : raw[i] = "U+00E9"
    /\ sanitized # <<>>

\* C6: the sanitized label holds no " - " (space, hyphen, space).
C6_NoSpacedHyphen == pc = "sanitized" => ~Contains(sanitized, <<" ", "-", " ">>)

(***************************************************************************)
(* Properties of the path interpreters (SpecPath)                          *)
(***************************************************************************)
Interpreted == pc \in {"named", "raised"}

\* The default mod label of each variant
DefaultMod(v) ==
    CASE v = "KeatonTheBot" -> <<"M","o","d","s">>
      [] v = "theboy181" -> <<"M","o","d","s">>
      [] v = "StevensND" -> <<"P","o","r","t"," ","M","o","d","s">>
      [] v = "Fl4sh9174" -> <<"U","l","t","r","a","w","i","d","e"," ","M","o","d","s">>

\* C7: a path of exactly one segment gives the variant's default mod label,
\* whatever the segment holds.
C7_OneSegmentDefault ==
    (Interpreted /\ Len(parts) = 1) =>
        (~names.raised /\ names.mod_name = DefaultMod(variant))

\* C8: the path interpreter never raises: every path gives a pair of labels.
C8_NeverRaises ==
    Interpreted => (names.raised = FALSE /\ names.game_name # None /\ names.mod_name # None)

\* C9: neither the game name nor the mod name of a returned pair is empty.
C9_NeitherEmpty ==
    pc = "named" => (names.game_name # <<>> /\ names.mod_name # <<>>)

HasAspectSegment == \E i \in DOMAIN parts : Contains(parts[i], AspectRatio)

\* The rewriting each variant does to the folder name <X> of "Aspect Ratio <X>"
AspectRewrite(v, x) ==
    IF v = "KeatonTheBot" THEN Replace(x, <<"'">>, <<".">>)
    ELSE IF v = "theboy181"
    THEN Replace(Replace(Replace(Replace(x, <<"'">>, <<".">>), <<"U+0060">>, <<".">>),
                         <<"2", "1", "-", "9">>, <<"2", "1", ".", "9">>), <<":">>, <<>>)
    ELSE x

\* The folders <X> may be: a segment of the path, or the root
AspectFolders == {parts[i] : i \in DOMAIN parts} \cup {KeatonRoot}

\* C10: in KeatonTheBot, StevensND and theboy181, a path with a segment that
\* holds "Aspect Ratio" gives the cleaned "Aspect Ratio <X>" as mod name, also
\* when its last segment has a version marker.
C10_AspectFirst ==
    (Interpreted /\ variant \in {"KeatonTheBot", "StevensND", "theboy181"} /\ HasAspectSegment) =>
        /\ ~names.raised
        /\ \E x \in AspectFolders :
              names.mod_name = clean_title(AspectRatio \o <<" ">> \o AspectRewrite(variant, x))

\* C10 witness: "Aspect Ratio" in the game folder, a last folder with a version
\* marker and a plain folder above it; the version rule would give another name.
C10_Witness ==
    /\ pc = "named" /\ variant = "KeatonTheBot"
    /\ Len(parts) = 3
    /\ Contains(parts[1], AspectRatio) /\ ~Contains(parts[2], AspectRatio)
    /\ HasVersionSuffix(parts[3])
    /\ names.mod_name = clean_title(AspectRatio \o <<" ">> \o parts[2])
    /\ names.mod_name # clean_title(parts[2] \o <<" ">> \o parts[3])


(***************************************************************************)
(* Claims about the Title-ID scan (SpecTitleId)                            *)
(***************************************************************************)
\* The copies of content files in the output tree, and the markers beside one
Copies == { x \in output : Len(x.name) >= Len(Ext)
                           /\ SubSeq(x.name, Len(x.name) - Len(Ext) + 1, Len(x.name)) = Ext }

MarkersOf(c) ==
    { m \in output : /\ m.dir = c.dir
                     /\ Len(m.name) > Len(c.name)
                     /\ SubSeq(m.name, 1, Len(c.name) + 1) = c.name \o <<"-">> }

MarkerId(m, c) == SubSeq(m.name, Len(c.name) + 2, Len(m.name))

\* Position i of text starts a "[", n hexadecimal characters, "]"
IsBracketedHex(text, i, n) ==
    /\ i + n + 1 <= Len(text)
    /\ text[i] = "["
    /\ \A k \in 1..n : text[i + k] \in
          {"0","1","2","3","4","5","6","7","8","9",
           "a","b","c","d","e","f","A","B","C","D","E","F"}
    /\ text[i + n + 1] = "]"

TokenStarts(text) == { i \in 1..Len(text) : IsBracketedHex(text, i, TitleIdLen) }

FirstToken(text) ==
    LET i == CHOOSE i \in TokenStarts(text) : \A j \in TokenStarts(text) : i <= j
    IN SubSeq(text, i + 1, i + TitleIdLen)

\* The file has been handled and reading it and creating its marker did not fail
Scanned == log # <<>> /\ log[1].line # "TitleID error"

\* C11: the Title ID taken from a file is the 16 hexadecimal characters of the
\* first "[" + 16 hex + "]" of its text, in either case, and it names the one
\* marker created; a text without such a substring (one whose bracketed hex
\* tokens have 15 or 17 characters, say) gives no Title ID and no marker.
C11_FirstSixteenHex ==
    Scanned =>
        \A c \in Copies :
            LET text == Decode(c.content)
            IN IF TokenStarts(text) # {}
               THEN /\ log[1].line = "TitleID"
                    /\ { MarkerId(m, c) : m \in MarkersOf(c) } = { FirstToken(text) }
               ELSE /\ log[1].line = "No TitleID found"
                    /\ MarkersOf(c) = {}

\* A file whose text has a bracketed token of 15 hexadecimal characters before
\* its Title ID has been given the marker of the Title ID
C11_Witness ==
    /\ Scanned
    /\ \E c \in Copies :
        LET text == Decode(c.content)
        IN /\ MarkersOf(c) # {}
           /\ \E i \in 1..Len(text) :
                /\ IsBracketedHex(text, i, TitleIdLen - 1)
                /\ \A j \in TokenStarts(text) : i < j

(***************************************************************************)
(* Claims about a driver run (SpecDriver)                                  *)
(***************************************************************************)
\* C12: a failure while one item is handled (deriving its names, copying it,
\* reading it, creating its marker, extracting an archive) never stops the
\* driver, so that every remaining item is handled; and a file whose Title-ID
\* step failed has its copy in the output tree.
C12_PerItemIsolation ==
    /\ pc # "aborted"
    /\ (log # <<>> /\ log[Len(log)].line = "TitleID error") =>
          \E c \in Copies : <<c.dir, c.name>> = log[Len(log)].dst

(***************************************************************************)
(* Further claims about the title caser (SpecTitle)                        *)
(***************************************************************************)
\* C13: in every word of the label, the first, the last and the middle ones,
\* the token that follows a subtitle separator inside the word starts with an
\* upper-case letter in the result.
C13_AfterEmbeddedSeparator ==
    pc = "titled" =>
        /\ Len(OutWords) = Len(InWords)
        /\ \A i \in DOMAIN InWords :
              \A p \in 1..(Len(InWords[i]) - 1) :
                  (InWords[i][p] \in subtitle_markers /\ InWords[i][p + 1] \notin subtitle_markers)
                      => /\ Len(OutWords[i]) = Len(InWords[i])
                         /\ OutWords[i][p + 1] = UpperChar(InWords[i][p + 1])

\* The word holds sep and every piece of it between two sep is a roman numeral
AllRomanAround(w, sep) ==
    /\ \E p \in DOMAIN w : w[p] = sep
    /\ \A a, b \in 0..(Len(w) + 1) :
          ( /\ a < b
            /\ a = 0 \/ w[a] = sep
            /\ b = Len(w) + 1 \/ w[b] = sep
            /\ \A q \in (a + 1)..(b - 1) : w[q] # sep )
              => is_roman_numeral(SubSeq(w, a + 1, b - 1))

\* C14: a word with "&", "+" or "|" in it whose pieces around that character
\* are all roman numerals is fully upper case in the result, as the first, the
\* last or a middle word of the label.
C14_JoinedRomanNumerals ==
    pc = "titled" =>
        /\ Len(OutWords) = Len(InWords)
        /\ \A i \in DOMAIN InWords :
              ( /\ ~contains_marker(InWords[i])
                /\ \E sep \in {"&", "+", "|"} : AllRomanAround(InWords[i], sep) )
                  => OutWords[i] = Upper(InWords[i])

(***************************************************************************)
(* Further claims about the path interpreters (SpecPath)                   *)
(***************************************************************************)
AspectVariants == {"KeatonTheBot", "StevensND", "theboy181"}

\* C15: in KeatonTheBot, StevensND and theboy181, a path with a segment that
\* holds "Aspect Ratio" gives the mod name of "Aspect Ratio <X>" where <X> is
\* the last segment of the path, the folder the content file is in.
C15_DeepestFolder ==
    (Interpreted /\ variant \in AspectVariants /\ HasAspectSegment) =>
        /\ ~names.raised
        /\ names.mod_name =
              clean_title(AspectRatio \o <<" ">> \o AspectRewrite(variant, parts[Len(parts)]))

\* What theboy181 rewrites in a mod label before it is cleaned
ModRewrite(v, x) == IF v = "theboy181" THEN AspectRewrite(v, x) ELSE x

\* C16: in KeatonTheBot and theboy181, a path of two or more segments, none
\* with "Aspect Ratio", whose last segment has a version marker gives the mod
\* name of "<second-to-last segment> <last segment>", also when the path has
\* exactly two segments.
C16_VersionJoinsParent ==
    ( /\ Interpreted /\ variant \in {"KeatonTheBot", "theboy181"}
      /\ Len(parts) >= 2 /\ ~HasAspectSegment
      /\ HasVersionSuffix(parts[Len(parts)]) ) =>
        /\ ~names.raised
        /\ names.mod_name =
              clean_title(ModRewrite(variant, parts[Len(parts) - 1] \o <<" ">> \o parts[Len(parts)]))

\* The game label of the first segment, before a country is appended
GameLabel(v, ps) ==
    LET g == Strip(StripBrackets(ps[1]))
    IN CASE v = "KeatonTheBot" -> transform_game_name(g)
         [] v = "theboy181" -> transform_game_name_raw(g)
         [] v = "StevensND" -> Replace(MoveThe(g), <<" ", "-", " ">>, <<" ">>)

\* The text between the brackets of the first bracketed marker of a segment
MarkerText(seg) ==
    LET i == FirstBracket(seg) IN SubSeq(seg, i + 1, CloseAfter(seg, i) - 1)

MarkedSegments == { i \in 2..Len(parts) : HasBracket(parts[i]) }

\* C17: in KeatonTheBot, StevensND and theboy181, when a segment after the
\* first holds a bracketed marker, the game name is that of
\* "<game> (<text of the marker, without its brackets>)", with the marker of
\* the first such segment of the path.
C17_BracketedRegion ==
    (Interpreted /\ variant \in AspectVariants /\ MarkedSegments # {}) =>
        LET i == CHOOSE i \in MarkedSegments : \A j \in MarkedSegments : i <= j
        IN /\ ~names.raised
           /\ names.game_name =
                 clean_title(GameLabel(variant, parts) \o <<" ", "(">>
                             \o MarkerText(parts[i]) \o <<")">>)

Trailblazers == <<"T","r","a","i","l","b","l","a","z","e","r","s">>

\* The mod label a variant has selected and rewritten when it comes to clean it
ModLabel(v, ps) ==
    IF v = "theboy181" THEN AspectRewrite(v, Strip(TheboyModRule(ps)))
    ELSE StevensRawMod(ps)

\* C18 as stated: StevensND, the variant that strips version tokens and a
\* repeated region prefix, gives the mod name "4K" when the mod label is
\* exactly "Trailblazers".
C18_StevensTrailblazers ==
    ( /\ Interpreted /\ variant = "StevensND" /\ ~HasAspectSegment
      /\ ModLabel(variant, parts) = Trailblazers ) =>
        (~names.raised /\ names.mod_name = <<"4", "K">>)

\* C18: theboy181 gives the mod name "4K" when the mod label it selected and
\* rewrote is exactly "Trailblazers"; a label that only holds "Trailblazers"
\* is cleaned as it is.
C18_TheboyTrailblazers ==
    (Interpreted /\ variant = "theboy181") =>
        /\ ~names.raised
        /\ ModLabel(variant, parts) = Trailblazers => names.mod_name = <<"4", "K">>
        /\ (ModLabel(variant, parts) # Trailblazers /\ ModLabel(variant, parts) # <<>>)
              => names.mod_name = clean_title(ModLabel(variant, parts))

\* C18 witness: theboy181 on "<game>/Trailblazers/<mod>", where the label is
\* the folder above the deepest one
C18_Witness ==
    /\ pc = "named" /\ variant = "theboy181"
    /\ Len(parts) = 3 /\ parts[2] = Trailblazers
    /\ ModLabel(variant, parts) = Trailblazers
    /\ names.mod_name = <<"4", "K">>
    /\ clean_title(Trailblazers) # <<"4", "K">>

(***************************************************************************)
(* Further claims about the sanitizer and clean_title (SpecSanitize)       *)
(***************************************************************************)
\* C19: clean_title is idempotent: cleaning a cleaned label once more, as
\* Fl4sh9174 does with the folder name it made of an archive name, gives the
\* same label.
C19_CleanTitleIdempotent ==
    pc = "recleaned" => retitled = titled

(***************************************************************************)
(* The frame of the title caser (SpecTitle)                                *)
(***************************************************************************)
IsAsciiLabel(s) == \A i \in DOMAIN s : s[i] \notin NonAscii

\* C20: title_case changes only letter case and whitespace: for an ASCII
\* label, the result in lower case is the words of the label in lower case
\* joined by single spaces; the number of words is kept, the result has no
\* leading, trailing or doubled whitespace, and the empty label gives the
\* empty label.
C20_OnlyCaseAndWhitespace ==
    (pc = "titled" /\ IsAsciiLabel(raw)) =>
        /\ Lower(titled) = Join([i \in DOMAIN InWords |-> Lower(InWords[i])], <<" ">>)
        /\ Len(OutWords) = Len(InWords)
        /\ titled = Join(OutWords, <<" ">>)
        /\ raw = <<>> => titled = <<>>

\* C20 witness: a padded label of three words with tabs between them and a
\* hyphen in its first word, whose case and whitespace title_case changed
C20_Witness ==
    /\ pc = "titled" /\ IsAsciiLabel(raw)
    /\ Len(InWords) = 3
    /\ IsSpace(raw[1]) /\ \E i \in DOMAIN raw : raw[i] = "\t"
    /\ Contains(InWords[1], <<"-">>)
    /\ Len(titled) < Len(raw)
    /\ titled # Join(InWords, <<" ">>)
    /\ Lower(titled) = Lower(Join(InWords, <<" ">>))

(***************************************************************************)
(* Markers and the copies beside them (SpecDriver)                         *)
(***************************************************************************)
\* C21: in KeatonTheBot, StevensND and theboy181, after any number of content
\* files has been handled, every marker "<version>.pchtxt-<id>" of the output
\* tree carries the Title ID found in the content of the "<version>.pchtxt"
\* now beside it, and a copy has at most one marker, also when a later file
\* with the same output path has overwritten the copy.
C21_MarkerOfCurrentCopy ==
    variant \in AspectVariants =>
        \A c \in Copies :
            LET text == Decode(c.content)
            IN /\ Cardinality(MarkersOf(c)) <= 1
               /\ \A m \in MarkersOf(c) :
                     /\ TokenStarts(text) # {}
                     /\ MarkerId(m, c) = FirstToken(text)

=============================================================================
